---- MODULE Spec2Model ----
(***************************************************************************)
(* Model of src/server.py: the /analyze handler of the Chang scalper API.  *)
(*                                                                         *)
(* Text values (query parameters) are sequences of one-character strings.  *)
(* A nullable value (Python None, pandas NaN) is a sequence of length at   *)
(* most one: <<>> is None/NaN, <<v>> is the value v.                       *)
(* Real numbers are exact rationals [num, den]; the comparisons the code   *)
(* makes on floats are made here by cross-multiplication.                  *)
(***************************************************************************)
EXTENDS Integers, Sequences, FiniteSets, TLC

VARIABLES
    pc,             \* position of the handler
    raw_symbol,     \* request.args "symbol" after .strip()
    raw_capital,    \* request.args "capital" after .strip()
    provider,       \* what the remote site serves for this request
    symbol,         \* build_symbol(raw_symbol)
    capital_value,  \* parse_capital(raw_capital)
    page,           \* loop variable of fetch_ohlcv_naver
    dfs,            \* pages collected so far by fetch_ohlcv_naver
    providerCalls,  \* number of requests.get calls made
    data,           \* the frame fetch_ohlcv_naver returned
    snapshot,       \* today_close, ma5, ma20, vol_today, vol_prev, rsi
    score,
    reasons,
    signal,
    levels,         \* stop_loss_price, tp1_price, tp2_price
    plan,           \* position_budget, shares_total, pos*_shares, pos*_amount
    response        \* what the caller receives

vars == << pc, raw_symbol, raw_capital, provider, symbol, capital_value, page,
           dfs, providerCalls, data, snapshot, score, reasons, signal, levels,
           plan, response >>

----------------------------------------------------------------------------
(* Bounds of the model and constants of the program *)

MaxRowsPerPage == 2

Pages == 15
MinBars == 20
RsiPeriod == 14
FloatMaxDigits == 309

----------------------------------------------------------------------------
(* Text helpers *)

Digits == {"0", "1", "2", "3", "4", "5", "6", "7", "8", "9"}

DigitVal(c) ==
    CASE c = "0" -> 0 [] c = "1" -> 1 [] c = "2" -> 2 [] c = "3" -> 3
      [] c = "4" -> 4 [] c = "5" -> 5 [] c = "6" -> 6 [] c = "7" -> 7
      [] c = "8" -> 8 [] c = "9" -> 9

IsDigit(c) == c \in Digits

IsDigitOrDot(c) == c \in Digits \cup {"."}

RECURSIVE LStrip(_)
LStrip(s) == IF s # <<>> /\ Head(s) = " " THEN LStrip(Tail(s)) ELSE s

RECURSIVE RStrip(_)
RStrip(s) ==
    IF s # <<>> /\ s[Len(s)] = " " THEN RStrip(SubSeq(s, 1, Len(s) - 1)) ELSE s

Strip(s) == RStrip(LStrip(s))

Repeat(c, n) == [i \in 1..n |-> c]

RECURSIVE Pow10(_)
Pow10(n) == IF n = 0 THEN 1 ELSE 10 * Pow10(n - 1)

RECURSIVE DigitsValue(_)
DigitsValue(s) ==
    IF s = <<>> THEN 0
    ELSE 10 * DigitsValue(SubSeq(s, 1, Len(s) - 1)) + DigitVal(s[Len(s)])

RECURSIVE DropLeadingZeros(_)
DropLeadingZeros(s) ==
    IF s # <<>> /\ Head(s) = "0" THEN DropLeadingZeros(Tail(s)) ELSE s

----------------------------------------------------------------------------
(* build_symbol *)

build_symbol(raw) ==
    IF raw = <<>> THEN <<>>
    ELSE LET digits == SelectSeq(raw, IsDigit)
         IN  IF Len(digits) < 6 THEN <<>>
             ELSE SubSeq(digits, Len(digits) - 5, Len(digits))

----------------------------------------------------------------------------
(* parse_capital *)

IsDot(c) == c = "."

\* Index of the first "." of s, or Len(s) + 1 when there is none.
DotIndex(s) ==
    IF \A i \in 1..Len(s) : s[i] # "." THEN Len(s) + 1
    ELSE CHOOSE i \in 1..Len(s) :
             s[i] = "." /\ \A j \in 1..(i - 1) : s[j] # "."

\* float(cleaned) for a text of digits and dots: <<>> when Python raises
\* ValueError (more than one dot, or no digit), otherwise the value: a
\* rational, or inf when the integer part has more significant digits than a
\* double can hold.
FloatOf(cleaned) ==
    LET dots == Len(SelectSeq(cleaned, IsDot))
        k    == DotIndex(cleaned)
        ip   == DropLeadingZeros(SubSeq(cleaned, 1, k - 1))
        fp   == SubSeq(cleaned, k + 1, Len(cleaned))
    IN  IF dots > 1 \/ Len(cleaned) = dots THEN <<>>
        ELSE IF Len(ip) > FloatMaxDigits
             THEN << [inf |-> TRUE, num |-> 1, den |-> 1] >>
             ELSE << [inf |-> FALSE,
                      num |-> DigitsValue(ip) * Pow10(Len(fp)) + DigitsValue(fp),
                      den |-> Pow10(Len(fp))] >>

parse_capital(raw) ==
    IF raw = <<>> THEN <<>>
    ELSE LET cleaned == SelectSeq(raw, IsDigitOrDot)
         IN  IF cleaned = <<>> THEN <<>>
             ELSE LET value == FloatOf(cleaned)
                  IN  IF value = <<>> THEN <<>>
                      ELSE IF (~value[1].inf) /\ value[1].num <= 0 THEN <<>>
                      ELSE value

----------------------------------------------------------------------------
(* Requests the model sends *)

RawSymbols ==
    { <<>>,
      <<" ", " ">>,
      <<"a", "b", "c">>,
      <<"1", "2", "3", "4", "5">>,
      <<" ", "0", "0", "5", "9", "3", "0", ".", "K", "S", " ">>,
      <<"1", "2", "3", "4", "0", "3", "5", "7", "2", "0">> }

RawCapitals ==
    { <<>>,
      <<"0">>,
      <<"a", "b", "c">>,
      <<"1", ".", "2", ".", "3">>,
      <<"-", "2", "5", "0", "0">>,
      <<" ", "7", "0", ".", "5">>,
      <<"1", "0", ",", "0", "0", "0", ",", "0", "0", "0">>,
      Repeat("9", FloatMaxDigits + 1) }

----------------------------------------------------------------------------
(* The remote site.  A provider says what each of the page requests of one  *)
(* /analyze call returns: an exception, a document without tables, or a    *)
(* table of rows (newest first, as the site lists them).                   *)

ShortHistoryPages == 2

Trends == {"up", "down", "flat", "zig", "hot", "mid"}

Exceptions == {"ReadTimeout", "HTTPError", "ValueError"}

\* fail = 0: no page request raises; fail = p: the request of page p raises.
Providers ==
    { sc \in [ rows  : 0..MaxRowsPerPage,
               trend : Trends,
               fail  : {0, 1, 3, Pages},
               exc   : Exceptions,
               tail  : {"full", "repeat", "notables"},
               holes : BOOLEAN,
               vol   : {1500, 2000} ] :
        /\ (sc.fail = 0) => sc.exc = "ReadTimeout"
        /\ (sc.fail = 1) => sc.exc = "ReadTimeout"
        /\ (sc.fail = 3) => sc.exc = "HTTPError"
        /\ (sc.fail = Pages) => sc.exc = "ValueError"
        /\ (sc.fail # 0 \/ sc.rows = 0) =>
               (sc.trend = "up" /\ ~sc.holes /\ sc.vol = 1500)
        /\ (sc.fail # 0) => sc.tail = "full" }

NewestDate == Pages * (MaxRowsPerPage + 1)

\* The closing price the site lists for trading day d.
CloseOn(trend, d) ==
    CASE trend = "up"   -> 100 + d
      [] trend = "down" -> NewestDate - d
      [] trend = "flat" -> 50000
      [] trend = "zig"  -> 100 + (d \div 2) + 3 * (d % 2)
      [] trend = "hot"  -> 100 + d + 2 * (d % 2)
      [] trend = "mid"  -> 100 + (d \div 2) + 2 * (d % 2)

VolumeOn(sc, d) == IF d = NewestDate THEN sc.vol ELSE 1000

Num(v) == [k |-> "num", v |-> v]
Text == [k |-> "text", v |-> 0]
NaNCell == [k |-> "nan", v |-> 0]

\* Row g of the listing, g = 1 being the newest trading day.
RawRow(sc, g) ==
    LET d == NewestDate - g + 1
    IN  IF sc.holes /\ g = 3
        THEN [date |-> NaNCell, close |-> NaNCell, volume |-> NaNCell]
        ELSE [date   |-> Num(d),
              close  |-> IF sc.holes /\ g = 2 THEN Text
                         ELSE Num(CloseOn(sc.trend, d)),
              volume |-> Num(VolumeOn(sc, d))]

\* The page the site serves for page number p: past the end of a short
\* history it serves the last page again, or a document without tables.
ServedPage(sc, p) ==
    IF sc.tail = "full" \/ p <= ShortHistoryPages THEN p ELSE ShortHistoryPages

PageRows(sc, p) ==
    LET q == ServedPage(sc, p)
    IN  [j \in 1..sc.rows |-> RawRow(sc, (q - 1) * sc.rows + j)]

\* What requests.get / raise_for_status / pd.read_html give for page p.
PageOutcome(sc, code, p) ==
    IF sc.fail = p
    THEN [kind |-> "raise",
          exc  |-> [type |-> sc.exc,
                    url  |-> IF sc.exc = "HTTPError" THEN <<code>> ELSE <<>>],
          rows |-> <<>>]
    ELSE IF sc.tail = "notables" /\ p > ShortHistoryPages
    THEN [kind |-> "notables", exc |-> [type |-> "", url |-> <<>>], rows |-> <<>>]
    ELSE [kind |-> "table", exc |-> [type |-> "", url |-> <<>>],
          rows |-> PageRows(sc, p)]

----------------------------------------------------------------------------
(* fetch_ohlcv_naver: the frame operations *)

HasNaN(row) == row.date.k = "nan" \/ row.close.k = "nan" \/ row.volume.k = "nan"

KeepRow(row) == ~HasNaN(row)

\* tables[0].dropna()
DropNa(rows) == SelectSeq(rows, KeepRow)

\* .astype(str).str.replace(",", "") and pd.to_numeric(errors="coerce"):
\* a number stays a number, any other text becomes NaN.
ToNumeric(cell) == IF cell.k = "num" THEN cell ELSE NaNCell

CleanRow(row) ==
    [date |-> row.date, close |-> ToNumeric(row.close),
     volume |-> ToNumeric(row.volume)]

CleanPage(df) == [i \in 1..Len(df) |-> CleanRow(df[i])]

RECURSIVE Concat(_)
Concat(frames) ==
    IF frames = <<>> THEN <<>> ELSE Head(frames) \o Concat(Tail(frames))

\* data.sort_values("날짜"): ascending by date.
RECURSIVE InsertByDate(_, _)
InsertByDate(sorted, bar) ==
    IF sorted = <<>> THEN <<bar>>
    ELSE IF sorted[Len(sorted)].Date <= bar.Date THEN Append(sorted, bar)
    ELSE Append(InsertByDate(SubSeq(sorted, 1, Len(sorted) - 1), bar),
                sorted[Len(sorted)])

RECURSIVE SortByDate(_)
SortByDate(bars) ==
    IF bars = <<>> THEN <<>>
    ELSE InsertByDate(SortByDate(SubSeq(bars, 1, Len(bars) - 1)), bars[Len(bars)])

ToBar(row) == [Date |-> row.date.v, Close |-> row.close.v, Volume |-> row.volume.v]

\* Lines 88-111: concat, dropna(subset), to_datetime, sort, rename, set_index.
FinishFrame(frames) ==
    IF frames = <<>> THEN <<>>
    ELSE LET all  == Concat(frames)
             kept == SelectSeq(all, KeepRow)
         IN  SortByDate([i \in 1..Len(kept) |-> ToBar(kept[i])])

----------------------------------------------------------------------------
(* Indicator arithmetic *)

RECURSIVE SumSeq(_)
SumSeq(s) == IF s = <<>> THEN 0 ELSE Head(s) + SumSeq(Tail(s))

\* series.iloc[-n:]
LastN(s, n) == IF Len(s) <= n THEN s ELSE SubSeq(s, Len(s) - n + 1, Len(s))

Closes(bars) == [i \in 1..Len(bars) |-> bars[i].Close]

Volumes(bars) == [i \in 1..Len(bars) |-> bars[i].Volume]

Max0(x) == IF x > 0 THEN x ELSE 0

\* series.diff() without its leading NaN
Diff(series) == [i \in 1..(Len(series) - 1) |-> series[i + 1] - series[i]]

NaN == [nan |-> TRUE, num |-> 0, den |-> 1]

\* calc_rsi: the last value of 100 - 100 / (1 + avg_gain / avg_loss) over the
\* trailing window; NaN when the window is not full or avg_loss is 0.
calc_rsi(series, period) ==
    IF Len(series) < period + 1 THEN NaN
    ELSE LET delta    == LastN(Diff(series), period)
             gain     == [i \in 1..period |-> Max0(delta[i])]
             loss     == [i \in 1..period |-> Max0(0 - delta[i])]
             sumGain  == SumSeq(gain)
             sumLoss  == SumSeq(loss)
         IN  IF sumLoss = 0 THEN NaN
             ELSE \* rs = sumGain / sumLoss, 1 + rs = (sumLoss + sumGain) / sumLoss
                  [nan |-> FALSE,
                   num |-> 100 * (sumLoss + sumGain) - 100 * sumLoss,
                   den |-> sumLoss + sumGain]

\* Comparisons of an RSI with a whole number; every comparison with NaN is
\* false, as in Python.
RsiGe(rsi, n) == (~rsi.nan) /\ rsi.num >= n * rsi.den
RsiLe(rsi, n) == (~rsi.nan) /\ rsi.num <= n * rsi.den
RsiGt(rsi, n) == (~rsi.nan) /\ rsi.num > n * rsi.den
RsiLt(rsi, n) == (~rsi.nan) /\ rsi.num < n * rsi.den

\* Lines 181-191.
Indicators(bars) ==
    LET closes  == Closes(bars)
        volumes == Volumes(bars)
    IN  [today_close |-> closes[Len(closes)],
         ma5         |-> [num |-> SumSeq(LastN(closes, 5)),
                          den |-> Len(LastN(closes, 5))],
         ma20        |-> [num |-> SumSeq(LastN(closes, 20)),
                          den |-> Len(LastN(closes, 20))],
         vol_today   |-> volumes[Len(volumes)],
         vol_prev    |-> volumes[Len(volumes) - 1],
         rsi         |-> calc_rsi(closes, RsiPeriod)]

----------------------------------------------------------------------------
(* The four rules, lines 193-223 *)

Rule1(s) == s.today_close * s.ma20.den > s.ma20.num

Rule2(s) == s.ma5.num * s.ma20.den > s.ma20.num * s.ma5.den

\* Rule 3 with >= in place of >.
Rule3AtLeast(s) == 2 * s.vol_today >= 3 * s.vol_prev

\* vol_today > vol_prev * 1.5
Rule3(s) == 2 * s.vol_today > 3 * s.vol_prev

Rule4(s) == RsiGe(s.rsi, 45) /\ RsiLe(s.rsi, 60)

Rule4Reason(s) ==
    IF Rule4(s) THEN <<"rsi_healthy">>
    ELSE IF RsiGt(s.rsi, 70) THEN <<"rsi_overheated">>
    ELSE IF RsiLt(s.rsi, 30) THEN <<"rsi_oversold">>
    ELSE <<>>

ScoreOf(s) ==
    (IF Rule1(s) THEN 1 ELSE 0) + (IF Rule2(s) THEN 1 ELSE 0)
      + (IF Rule3(s) THEN 1 ELSE 0) + (IF Rule4(s) THEN 1 ELSE 0)

\* The reasons with the volume reason appended before the rule-2 reason.
ReasonsVolumeFirst(s) ==
    (IF Rule1(s) THEN <<"above_ma20">> ELSE <<"below_ma20">>)
      \o (IF Rule3(s) THEN <<"volume_up">> ELSE <<"volume_normal">>)
      \o (IF Rule2(s) THEN <<"ma5_above_ma20">> ELSE <<>>)
      \o Rule4Reason(s)

ReasonsOf(s) ==
    (IF Rule1(s) THEN <<"above_ma20">> ELSE <<"below_ma20">>)
      \o (IF Rule2(s) THEN <<"ma5_above_ma20">> ELSE <<>>)
      \o (IF Rule3(s) THEN <<"volume_up">> ELSE <<"volume_normal">>)
      \o Rule4Reason(s)

\* Lines 226-234.
SignalOf(sc) ==
    IF sc >= 3 THEN "BUY_STRONG" ELSE IF sc = 2 THEN "WATCH" ELSE "AVOID"

----------------------------------------------------------------------------
(* Levels and position plan, lines 236-259 *)

\* Python round() of the non-negative rational n / d: half to even.
RoundHalfEven(n, d) ==
    LET q == n \div d
        r == n % d
    IN  IF 2 * r < d THEN q
        ELSE IF 2 * r > d THEN q + 1
        ELSE IF q % 2 = 0 THEN q ELSE q + 1

LevelsOf(close) ==
    [stop_loss_price |-> RoundHalfEven(97 * close, 100),
     tp1_price       |-> RoundHalfEven(105 * close, 100),
     tp2_price       |-> RoundHalfEven(107 * close, 100)]

NoPlan ==
    [position_budget |-> <<>>, shares_total |-> <<>>,
     pos1_shares |-> <<>>, pos2_shares |-> <<>>, pos3_shares |-> <<>>,
     pos1_amount |-> <<>>, pos2_amount |-> <<>>, pos3_amount |-> <<>>]

\* The guard of line 247.
PlanWanted(capital, close) == capital # <<>> /\ close > 0

\* capital * 0.10 is inf for an infinite capital, inf // close is NaN and
\* int(NaN) raises ValueError (line 251).
PlanRaises(capital, close) == PlanWanted(capital, close) /\ capital[1].inf

\* int(position_budget // today_close)
SharesTotal(capital, close) == capital.num \div (capital.den * 10 * close)

Pos1Shares(total) == (total * 4) \div 10

Pos2Shares(total) == (total * 3) \div 10

\* The third tranche rounded like the second instead of taking the remainder.
Pos3SharesFloored(total) == (total * 3) \div 10

Pos3Shares(total) == total - Pos1Shares(total) - Pos2Shares(total)

PlanOf(capital, close) ==
    IF ~PlanWanted(capital, close) THEN NoPlan
    ELSE LET total == SharesTotal(capital[1], close)
         IN  [position_budget |-> << [num |-> capital[1].num,
                                      den |-> capital[1].den * 10] >>,
              shares_total |-> <<total>>,
              pos1_shares  |-> <<Pos1Shares(total)>>,
              pos2_shares  |-> <<Pos2Shares(total)>>,
              pos3_shares  |-> <<Pos3Shares(total)>>,
              pos1_amount  |-> <<Pos1Shares(total) * close>>,
              pos2_amount  |-> <<Pos2Shares(total) * close>>,
              pos3_amount  |-> <<Pos3Shares(total) * close>>]

----------------------------------------------------------------------------
(* Responses *)

NoMessage == [text |-> "", symbol |-> <<>>, cause |-> <<>>]

\* jsonify({"error": ..., "message": ...}), status
ErrorResponse(status, kind, text, sym, cause) ==
    [status |-> status, structured |-> TRUE, error |-> kind,
     message |-> [text |-> text, symbol |-> sym, cause |-> cause],
     result |-> <<>>]

\* jsonify(result), lines 363-391
OkResponse(result) ==
    [status |-> 200, structured |-> TRUE, error |-> "",
     message |-> NoMessage, result |-> <<result>>]

\* An exception that leaves analyze: the framework answers with its own
\* error page, not with a document of the handler.
UnhandledResponse ==
    [status |-> 500, structured |-> FALSE, error |-> "",
     message |-> NoMessage, result |-> <<>>]

\* The variable parts of strategy_text, lines 262-361.
StrategyOf(sc, pl) ==
    [step1 |-> SignalOf(sc),
     step5 |-> IF pl.shares_total # <<>> /\ pl.shares_total[1] > 0
               THEN "amounts" ELSE "no_capital"]

----------------------------------------------------------------------------
(* The handler *)

Init ==
    /\ pc = "idle"
    /\ raw_symbol = <<>>
    /\ raw_capital = <<>>
    /\ provider \in Providers
    /\ symbol = <<>>
    /\ capital_value = <<>>
    /\ page = 0
    /\ dfs = <<>>
    /\ providerCalls = 0
    /\ data = <<>>
    /\ snapshot = <<>>
    /\ score = <<>>
    /\ reasons = <<>>
    /\ signal = <<>>
    /\ levels = <<>>
    /\ plan = NoPlan
    /\ response = <<>>

\* Lines 129-130.
Receive(rs, rc) ==
    /\ pc = "idle"
    /\ raw_symbol' = Strip(rs)
    /\ raw_capital' = Strip(rc)
    /\ pc' = "check_symbol"
    /\ UNCHANGED << provider, symbol, capital_value, page, dfs, providerCalls,
                    data, snapshot, score, reasons, signal, levels, plan,
                    response >>

\* Lines 132-133.
CheckSymbolPresent ==
    /\ pc = "check_symbol"
    /\ IF raw_symbol = <<>>
       THEN /\ response' = << ErrorResponse(400, "no_symbol", "enter_symbol",
                                            <<>>, <<>>) >>
            /\ pc' = "done"
       ELSE /\ pc' = "build_symbol"
            /\ UNCHANGED response
    /\ UNCHANGED << raw_symbol, raw_capital, provider, symbol, capital_value,
                    page, dfs, providerCalls, data, snapshot, score, reasons,
                    signal, levels, plan >>

\* NormalizeSymbol without the early return of lines 136-142.
NormalizeSymbolNoReturn ==
    /\ pc = "build_symbol"
    /\ symbol' = build_symbol(raw_symbol)
    /\ pc' = "parse_capital"
    /\ UNCHANGED << raw_symbol, raw_capital, provider, capital_value, page, dfs,
                    providerCalls, data, snapshot, score, reasons, signal,
                    levels, plan, response >>

\* Lines 135-142.
NormalizeSymbol ==
    /\ pc = "build_symbol"
    /\ symbol' = build_symbol(raw_symbol)
    /\ IF symbol' = <<>>
       THEN /\ response' = << ErrorResponse(400, "invalid_symbol",
                                            "check_six_digit_code", <<>>, <<>>) >>
            /\ pc' = "done"
       ELSE /\ pc' = "parse_capital"
            /\ UNCHANGED response
    /\ UNCHANGED << raw_symbol, raw_capital, provider, capital_value, page, dfs,
                    providerCalls, data, snapshot, score, reasons, signal,
                    levels, plan >>

\* Line 144, and the entry of fetch_ohlcv_naver (line 54).
ParseCapital ==
    /\ pc = "parse_capital"
    /\ capital_value' = parse_capital(raw_capital)
    /\ page' = 1
    /\ dfs' = <<>>
    /\ pc' = "fetch"
    /\ UNCHANGED << raw_symbol, raw_capital, provider, symbol, providerCalls,
                    data, snapshot, score, reasons, signal, levels, plan,
                    response >>

\* FetchPage with a failing page skipped instead of ending the request.
FetchPageSkipsFailure ==
    /\ pc = "fetch"
    /\ page <= Pages
    /\ providerCalls' = providerCalls + 1
    /\ LET out == PageOutcome(provider, symbol, page)
           df  == DropNa(out.rows)
       IN  dfs' = IF out.kind # "table" \/ df = <<>>
                  THEN dfs
                  ELSE Append(dfs, CleanPage(df))
    /\ page' = page + 1
    /\ UNCHANGED << pc, response, raw_symbol, raw_capital, provider, symbol,
                    capital_value, data, snapshot, score, reasons, signal,
                    levels, plan >>

\* One turn of the loop of lines 63-86; an exception leaves
\* fetch_ohlcv_naver and is caught at lines 150-159.
FetchPage ==
    /\ pc = "fetch"
    /\ page <= Pages
    /\ providerCalls' = providerCalls + 1
    /\ LET out == PageOutcome(provider, symbol, page)
           df  == DropNa(out.rows)
       IN  IF out.kind = "raise"
           THEN /\ response' = << ErrorResponse(500, "download_failed",
                                                "naver_lookup_failed", <<>>,
                                                <<out.exc>>) >>
                /\ pc' = "done"
                /\ UNCHANGED << page, dfs >>
           ELSE /\ dfs' = IF out.kind = "notables" \/ df = <<>>
                          THEN dfs
                          ELSE Append(dfs, CleanPage(df))
                /\ page' = page + 1
                /\ UNCHANGED << pc, response >>
    /\ UNCHANGED << raw_symbol, raw_capital, provider, symbol, capital_value,
                    data, snapshot, score, reasons, signal, levels, plan >>

\* Lines 88-111 and the return to line 149.
FetchReturn ==
    /\ pc = "fetch"
    /\ page > Pages
    /\ data' = FinishFrame(dfs)
    /\ pc' = "check_empty"
    /\ UNCHANGED << raw_symbol, raw_capital, provider, symbol, capital_value,
                    page, dfs, providerCalls, snapshot, score, reasons, signal,
                    levels, plan, response >>

\* Lines 161-170.
CheckEmpty ==
    /\ pc = "check_empty"
    /\ IF data = <<>>
       THEN /\ response' = << ErrorResponse(404, "empty_data", "no_data_for",
                                            <<symbol>>, <<>>) >>
            /\ pc' = "done"
       ELSE /\ pc' = "check_min_bars"
            /\ UNCHANGED response
    /\ UNCHANGED << raw_symbol, raw_capital, provider, symbol, capital_value,
                    page, dfs, providerCalls, data, snapshot, score, reasons,
                    signal, levels, plan >>

\* Lines 173-179.
CheckMinBars ==
    /\ pc = "check_min_bars"
    /\ IF Len(data) < MinBars
       THEN /\ response' = << ErrorResponse(400, "insufficient_data",
                                            "not_enough_for_ma20", <<>>, <<>>) >>
            /\ pc' = "done"
       ELSE /\ pc' = "indicators"
            /\ UNCHANGED response
    /\ UNCHANGED << raw_symbol, raw_capital, provider, symbol, capital_value,
                    page, dfs, providerCalls, data, snapshot, score, reasons,
                    signal, levels, plan >>

\* Lines 181-191.
ComputeIndicators ==
    /\ pc = "indicators"
    /\ snapshot' = << Indicators(data) >>
    /\ pc' = "classify"
    /\ UNCHANGED << raw_symbol, raw_capital, provider, symbol, capital_value,
                    page, dfs, providerCalls, data, score, reasons, signal,
                    levels, plan, response >>

\* Lines 193-234.
Classify ==
    /\ pc = "classify"
    /\ score' = << ScoreOf(snapshot[1]) >>
    /\ reasons' = ReasonsOf(snapshot[1])
    /\ signal' = << SignalOf(score'[1]) >>
    /\ pc' = "plan"
    /\ UNCHANGED << raw_symbol, raw_capital, provider, symbol, capital_value,
                    page, dfs, providerCalls, data, snapshot, levels, plan,
                    response >>

\* Lines 236-259.  Nothing in analyze catches the ValueError of line 251.
PlanPosition ==
    /\ pc = "plan"
    /\ levels' = << LevelsOf(snapshot[1].today_close) >>
    /\ IF PlanRaises(capital_value, snapshot[1].today_close)
       THEN /\ response' = << UnhandledResponse >>
            /\ pc' = "done"
            /\ UNCHANGED plan
       ELSE /\ plan' = PlanOf(capital_value, snapshot[1].today_close)
            /\ pc' = "respond"
            /\ UNCHANGED response
    /\ UNCHANGED << raw_symbol, raw_capital, provider, symbol, capital_value,
                    page, dfs, providerCalls, data, snapshot, score, reasons,
                    signal >>

\* Lines 261-391.
Respond ==
    /\ pc = "respond"
    /\ response' = << OkResponse(
           [symbol_input  |-> raw_symbol,
            symbol_used   |-> symbol,
            snapshot      |-> snapshot[1],
            score         |-> score[1],
            signal        |-> signal[1],
            reasons       |-> reasons,
            strategy_text |-> StrategyOf(score[1], plan),
            levels        |-> levels[1],
            capital_input |-> capital_value,
            plan          |-> plan]) >>
    /\ pc' = "done"
    /\ UNCHANGED << raw_symbol, raw_capital, provider, symbol, capital_value,
                    page, dfs, providerCalls, data, snapshot, score, reasons,
                    signal, levels, plan >>

Next ==
    \/ \E rs \in RawSymbols, rc \in RawCapitals : Receive(rs, rc)
    \/ CheckSymbolPresent
    \/ NormalizeSymbol
    \/ ParseCapital
    \/ FetchPage
    \/ FetchReturn
    \/ CheckEmpty
    \/ CheckMinBars
    \/ ComputeIndicators
    \/ Classify
    \/ PlanPosition
    \/ Respond

Spec == Init /\ [][Next]_vars

----------------------------------------------------------------------------
(* Vocabulary of the properties *)

Done == pc = "done"

ErrorKinds ==
    {"no_symbol", "invalid_symbol", "download_failed", "empty_data",
     "insufficient_data"}

IsError(r) == r.structured /\ r.error \in ErrorKinds /\ r.result = <<>>

IsResult(r) == r.structured /\ r.error = "" /\ r.status = 200 /\ r.result # <<>>

\* Nothing of the computation stage has run.
NothingComputed ==
    /\ snapshot = <<>>
    /\ score = <<>>
    /\ reasons = <<>>
    /\ signal = <<>>
    /\ levels = <<>>
    /\ plan = NoPlan

PlanFields(pl) ==
    << pl.position_budget, pl.shares_total, pl.pos1_shares, pl.pos2_shares,
       pl.pos3_shares, pl.pos1_amount, pl.pos2_amount, pl.pos3_amount >>

AllNull(pl) == \A i \in 1..8 : PlanFields(pl)[i] = <<>>

AllPopulated(pl) == \A i \in 1..8 : PlanFields(pl)[i] # <<>>

\* The amount the caller wrote, read as a signed decimal number, is > 0.
WrotePositiveCapital(raw) ==
    LET v == FloatOf(SelectSeq(raw, IsDigitOrDot))
    IN  /\ raw # <<>>
        /\ Head(raw) # "-"
        /\ SelectSeq(raw, IsDigitOrDot) # <<>>
        /\ v # <<>>
        /\ (v[1].inf \/ v[1].num > 0)

\* The rules as the specification words them, on a snapshot s.
SaysRule(i, s) ==
    CASE i = 1 -> s.today_close * s.ma20.den > s.ma20.num
      [] i = 2 -> s.ma5.num * s.ma20.den > s.ma20.num * s.ma5.den
      [] i = 3 -> 10 * s.vol_today > 15 * s.vol_prev
      [] i = 4 -> (~s.rsi.nan) /\ 45 * s.rsi.den <= s.rsi.num
                               /\ s.rsi.num <= 60 * s.rsi.den

RuleOfReason(tag) ==
    CASE tag \in {"above_ma20", "below_ma20"} -> 1
      [] tag = "ma5_above_ma20" -> 2
      [] tag \in {"volume_up", "volume_normal"} -> 3
      [] tag \in {"rsi_healthy", "rsi_overheated", "rsi_oversold"} -> 4

ReasonsOfRule(i) == SelectSeq(reasons, LAMBDA tag : RuleOfReason(tag) = i)

\* No close of the trailing RSI window is lower than the close before it.
AvgLossIsZero ==
    /\ Len(data) >= RsiPeriod + 1
    /\ \A i \in (Len(data) - RsiPeriod)..(Len(data) - 1) :
           data[i + 1].Close >= data[i].Close

----------------------------------------------------------------------------
(* C1 *)

\* C1: the checks run in the order symbol present, symbol normalizable, data
\* fetch succeeded, data non-empty, at least 20 bars, indicator computation;
\* the first failing check alone decides the response and no later stage
\* runs: the provider is never called for a missing or invalid symbol, and
\* with fewer than 20 bars no indicator, score or plan field is computed or
\* returned.
C1_ChecksInOrder ==
    /\ providerCalls > 0 => (raw_symbol # <<>> /\ Len(symbol) = 6)
    /\ data # <<>> => (providerCalls = Pages /\ provider.fail = 0)
    /\ ~NothingComputed => Len(data) >= MinBars
    /\ Done =>
         LET r == response[1]
             noSymbol  == raw_symbol = <<>>
             badSymbol == SelectSeq(raw_symbol, IsDigit) = <<>>
                            \/ Len(SelectSeq(raw_symbol, IsDigit)) < 6
             raised    == provider.fail # 0
         IN  /\ noSymbol => (IsError(r) /\ r.error = "no_symbol")
             /\ (~noSymbol /\ badSymbol) =>
                    (IsError(r) /\ r.error = "invalid_symbol")
             /\ (noSymbol \/ badSymbol) =>
                    (providerCalls = 0 /\ data = <<>> /\ NothingComputed)
             /\ (~noSymbol /\ ~badSymbol /\ raised) =>
                    (IsError(r) /\ r.error = "download_failed"
                       /\ data = <<>> /\ NothingComputed)
             /\ (~noSymbol /\ ~badSymbol /\ ~raised /\ data = <<>>) =>
                    (IsError(r) /\ r.error = "empty_data" /\ NothingComputed)
             /\ (~noSymbol /\ ~badSymbol /\ ~raised /\ data # <<>>
                   /\ Len(data) < MinBars) =>
                    (IsError(r) /\ r.error = "insufficient_data"
                       /\ NothingComputed)
             /\ (~noSymbol /\ ~badSymbol /\ ~raised /\ Len(data) >= MinBars) =>
                    (~IsError(r) /\ snapshot # <<>>)

C1_Witness ==
    /\ Done
    /\ response[1].error = "insufficient_data"
    /\ providerCalls = Pages
    /\ Len(data) > 0
    /\ Len(data) < MinBars
    /\ NothingComputed

----------------------------------------------------------------------------
(* C2 *)

\* C2: any unexpected failure raised during the computation stage of analyze
\* (everything after the 20-bar check) is caught and converted to a structured
\* error response; the caller never receives an unstructured failure.
C2_FailuresAreStructured == Done => response[1].structured

----------------------------------------------------------------------------
(* C3 *)

\* C3: for every request that passes the data checks the position-plan fields
\* are populated if and only if the caller supplied a positive capital amount
\* and the latest close is > 0; otherwise (capital absent, zero, negative or
\* unparsable, or close <= 0) they are all null together and the request still
\* returns a successful result.
C3_PlanIffPositiveCapital ==
    (Done /\ snapshot # <<>>) =>
        LET r == response[1]
            wanted == WrotePositiveCapital(raw_capital)
                        /\ snapshot[1].today_close > 0
        IN  /\ wanted => (IsResult(r) /\ AllPopulated(r.result[1].plan))
            /\ ~wanted => (IsResult(r) /\ AllNull(r.result[1].plan))

----------------------------------------------------------------------------
(* C4 *)

\* C4: for a positive capital and a positive close, shares_total is
\* floor(capital * 0.10 / close), pos1_shares is floor(shares_total * 0.4),
\* pos2_shares is floor(shares_total * 0.3), pos3_shares is the remainder and
\* the three tranches sum to shares_total exactly; when shares_total is 0 the
\* plan is returned zeroed (0 shares and 0 amount in every tranche), without
\* error.
C4_TranchesSumToTotal ==
    plan.shares_total # <<>> =>
        LET c     == capital_value[1]
            close == snapshot[1].today_close
            total == plan.shares_total[1]
            p1    == plan.pos1_shares[1]
            p2    == plan.pos2_shares[1]
            p3    == plan.pos3_shares[1]
        IN  /\ AllPopulated(plan)
            /\ close > 0
            /\ total >= 0
            /\ total * close * 10 * c.den <= c.num
            /\ c.num < (total + 1) * close * 10 * c.den
            /\ 10 * p1 <= 4 * total /\ 4 * total < 10 * (p1 + 1)
            /\ 10 * p2 <= 3 * total /\ 3 * total < 10 * (p2 + 1)
            /\ p3 >= 0
            /\ p1 + p2 + p3 = total
            /\ plan.pos1_amount[1] = p1 * close
            /\ plan.pos2_amount[1] = p2 * close
            /\ plan.pos3_amount[1] = p3 * close
            /\ total = 0 =>
                 /\ p1 = 0 /\ p2 = 0 /\ p3 = 0
                 /\ plan.pos1_amount = <<0>>
                 /\ plan.pos2_amount = <<0>>
                 /\ plan.pos3_amount = <<0>>
            /\ Done => (IsResult(response[1]) /\ response[1].result[1].plan = plan)

C4_Witness ==
    /\ Done
    /\ IsResult(response[1])
    /\ plan.shares_total # <<>>
    /\ plan.shares_total[1] > 0
    /\ plan.pos3_shares[1] > plan.pos2_shares[1]
    /\ 10 * plan.pos1_shares[1] < 4 * plan.shares_total[1]

----------------------------------------------------------------------------
(* C5 *)

\* C5: for every indicator snapshot the score is the number of the four rules
\* that hold (close > ma20, ma5 > ma20, volume_today > volume_prev * 1.5,
\* 45 <= RSI <= 60), an integer in 0..4, and the signal class depends on the
\* score alone: 0 or 1 is AVOID, 2 is WATCH, 3 or 4 is BUY_STRONG.
C5_ScoreCountsRules ==
    score # <<>> =>
        LET s == snapshot[1]
            n == Cardinality({i \in 1..4 : SaysRule(i, s)})
        IN  /\ score[1] = n
            /\ score[1] \in 0..4
            /\ signal = << CASE n \in {0, 1} -> "AVOID"
                             [] n = 2 -> "WATCH"
                             [] n \in {3, 4} -> "BUY_STRONG" >>
            /\ (Done /\ IsResult(response[1])) =>
                 /\ response[1].result[1].score = n
                 /\ response[1].result[1].signal = signal[1]

C5_Witness ==
    /\ Done
    /\ IsResult(response[1])
    /\ response[1].result[1].score = 3
    /\ response[1].result[1].signal = "BUY_STRONG"
    /\ SaysRule(3, snapshot[1])
    /\ snapshot[1].rsi.nan

----------------------------------------------------------------------------
(* C6 *)

\* C6: when the average loss over the trailing 14 close deltas is exactly
\* zero, calc_rsi yields an undefined (not-a-number) RSI; rule 4 then adds no
\* point to the score and appends no reason, and the request still completes
\* with a normal result.
C6_ZeroLossRsiUndefined ==
    (snapshot # <<>> /\ AvgLossIsZero) =>
        /\ snapshot[1].rsi.nan
        /\ score # <<>> =>
             /\ score[1] = Cardinality({i \in 1..3 : SaysRule(i, snapshot[1])})
             /\ ReasonsOfRule(4) = <<>>
        /\ Done =>
             /\ IsResult(response[1])
             /\ response[1].result[1].snapshot.rsi.nan

----------------------------------------------------------------------------
(* C7 *)

\* C7: the reasons list is built in the rule order 1 to 4: exactly one reason
\* of rule 1, the reason of rule 2 only if ma5 > ma20, exactly one reason of
\* rule 3, at most one reason of rule 4 (healthy if 45 <= RSI <= 60,
\* overheated if RSI > 70, oversold if RSI < 30, none otherwise); the list has
\* 2 to 4 entries and no reason of a later rule precedes one of an earlier.
C7_ReasonsInRuleOrder ==
    score # <<>> =>
        LET s == snapshot[1]
        IN  /\ Len(reasons) \in 2..4
            /\ \A i, j \in 1..Len(reasons) :
                   i < j => RuleOfReason(reasons[i]) < RuleOfReason(reasons[j])
            /\ ReasonsOfRule(1) =
                   IF SaysRule(1, s) THEN <<"above_ma20">> ELSE <<"below_ma20">>
            /\ ReasonsOfRule(2) =
                   IF SaysRule(2, s) THEN <<"ma5_above_ma20">> ELSE <<>>
            /\ ReasonsOfRule(3) =
                   IF SaysRule(3, s) THEN <<"volume_up">> ELSE <<"volume_normal">>
            /\ ReasonsOfRule(4) =
                   IF SaysRule(4, s) THEN <<"rsi_healthy">>
                   ELSE IF (~s.rsi.nan) /\ s.rsi.num > 70 * s.rsi.den
                        THEN <<"rsi_overheated">>
                   ELSE IF (~s.rsi.nan) /\ s.rsi.num < 30 * s.rsi.den
                        THEN <<"rsi_oversold">>
                   ELSE <<>>
            /\ (Done /\ IsResult(response[1])) =>
                   response[1].result[1].reasons = reasons

C7_Witness ==
    /\ Done
    /\ IsResult(response[1])
    /\ response[1].result[1].reasons =
           <<"above_ma20", "ma5_above_ma20", "volume_up", "rsi_healthy">>

----------------------------------------------------------------------------
(* C8 *)

\* The identifiers an error response shows: in its message, or in the text
\* of the cause the message quotes.
CarriedSymbols(r) ==
    {r.message.symbol[i] : i \in 1..Len(r.message.symbol)}
      \cup UNION { {c.url[i] : i \in 1..Len(c.url)} :
                     c \in {r.message.cause[k] : k \in 1..Len(r.message.cause)} }

\* C8: every error response of analyze carries an error kind and a
\* human-readable message, and every error raised after the symbol has been
\* normalized (download_failed, empty_data, insufficient_data) also carries
\* the normalized identifier.
C8_ErrorsCarrySymbol ==
    (Done /\ response[1].error # "") =>
        LET r == response[1]
        IN  /\ r.error \in ErrorKinds
            /\ r.message.text # ""
            /\ r.error \in {"download_failed", "empty_data", "insufficient_data"}
                 => symbol \in CarriedSymbols(r)

----------------------------------------------------------------------------
(* C9 *)

\* C9: if any one of the 15 page requests raises, the request ends with a
\* structured download_failed response that includes the cause, even when
\* earlier pages were fetched: their bars are discarded, no indicator or
\* signal is computed from partial data and the exception does not leave the
\* handler.
C9_PageFailureIsDownloadFailed ==
    /\ provider.fail # 0 => (data = <<>> /\ NothingComputed
                               /\ providerCalls <= provider.fail)
    /\ (Done /\ Len(symbol) = 6 /\ provider.fail # 0) =>
         LET r == response[1]
         IN  /\ IsError(r)
             /\ r.error = "download_failed"
             /\ r.status = 500
             /\ Len(r.message.cause) = 1
             /\ r.message.cause[1].type = provider.exc
             /\ providerCalls = provider.fail

C9_Witness ==
    /\ Done
    /\ response[1].error = "download_failed"
    /\ providerCalls = Pages
    /\ dfs # <<>>
    /\ data = <<>>
    /\ NothingComputed

----------------------------------------------------------------------------
(* C10 *)

\* C10: whatever the pages contain, the bar sequence that fetch_ohlcv_naver
\* hands to the 20-bar check and to the indicator computation has unique,
\* strictly increasing dates.
C10_DatesStrictlyIncreasing ==
    \A i \in 1..(Len(data) - 1) : data[i].Date < data[i + 1].Date

====
